---- MODULE Spec2Model ----
(***************************************************************************)
(* Model of src/main.py (MyWheels real-time availability export).          *)
(*                                                                         *)
(* Time is counted in whole minutes since midnight of the day the run      *)
(* starts; a datetime is an integer, a timedelta is an integer.  A text    *)
(* (Python str) is a sequence of one-character strings, so that "" is the  *)
(* empty sequence and formatting really builds the characters.             *)
(***************************************************************************)
EXTENDS Integers, Sequences, FiniteSets, TLC

\* ------------------------------------------------------------------ CONFIG
BLOCK_MINUTES == 15
WINDOW_HOURS == 10
FREE_REQUIRED_MINUTES == 30

\* ------------------------------------------------------------------ bounds
\* cars returned by the sheet in one run
MaxCars == 2
\* slot records the API returns over a whole run of main
RunQuota == 1
\* slot records the API returns to a direct call with a short window
MaxSlots == 3
\* slot records the API returns to a direct call with the window of main
WideSlots == 2

\* datetime.now(), truncated to the minute: 09:00 and 23:30
Nows == {9 * 60, 23 * 60 + 30}

\* start of the window of a direct call
CallStart == 9 * 60

\* length of the window of a direct call: shorter than the free block that is
\* looked for, exactly as long, longer, and the length main uses
ShortWindows ==
    {BLOCK_MINUTES, FREE_REQUIRED_MINUTES,
     FREE_REQUIRED_MINUTES + BLOCK_MINUTES}

WideWindow == WINDOW_HOURS * 60

\* the instants a slot may name: just outside the window, on its edges, and
\* one free block inside either edge
Times(sd, ed) ==
    {sd - BLOCK_MINUTES, sd, sd + FREE_REQUIRED_MINUTES,
     ed - FREE_REQUIRED_MINUTES, ed, ed + BLOCK_MINUTES}

VARIABLES
    pc,               \* position of the run
    start_dt, end_dt, \* the window
    cars,             \* result of load_cars_from_sheet
    idx,              \* 1-based position of the for loop of main
    availability,     \* dict  display key -> entry
    written,          \* availability.json: whether it was written, and its content
    attempts,         \* requests.post calls made per position of cars
    fetch_status,     \* outcome of the fetch of the current call
    quota,            \* slot records the API will still return (bounds the run)
    n,                \* records of the current response iterated so far
    branch,           \* exit the last iteration of the slot loop took
    conflict_blocks,  \* the local conflict_blocks
    clipped,          \* value of conflict_blocks when the slot loop ended
    entry             \* value returned by build_availability_for_car

vars == <<pc, start_dt, end_dt, cars, idx, availability, written, attempts,
          fetch_status, quota, n, branch, conflict_blocks, clipped, entry>>

\* ------------------------------------------------------------------ texts
DigitChar == <<"0", "1", "2", "3", "4", "5", "6", "7", "8", "9">>

IsDigit(c) == \E i \in 1..10 : DigitChar[i] = c

DigitValue(c) == (CHOOSE i \in 1..10 : DigitChar[i] = c) - 1

RECURSIVE IntToStr(_)
\* str(k) for k >= 0
IntToStr(k) ==
    IF k < 10 THEN <<DigitChar[k + 1]>>
    ELSE IntToStr(k \div 10) \o <<DigitChar[(k % 10) + 1]>>

RECURSIVE StrToInt(_)
\* int(s) for a non-empty text of digits
StrToInt(s) ==
    IF Len(s) = 1 THEN DigitValue(s[1])
    ELSE 10 * StrToInt(SubSeq(s, 1, Len(s) - 1)) + DigitValue(s[Len(s)])

\* int(s) raises ValueError unless s is a non-empty text of digits
IntParses(s) == Len(s) > 0 /\ \A i \in 1..Len(s) : IsDigit(s[i])

Upper(c) == IF c = "a" THEN "A" ELSE IF c = "b" THEN "B" ELSE c

RECURSIVE clean_license(_)
clean_license(lic) ==
    IF Len(lic) = 0 THEN <<>>
    ELSE IF Head(lic) \in {" ", "-"} THEN clean_license(Tail(lic))
    ELSE <<Upper(Head(lic))>> \o clean_license(Tail(lic))

\* strftime('%H:%M')
Two(k) == <<DigitChar[(k \div 10) + 1], DigitChar[(k % 10) + 1]>>

StrfHM(t) == Two((t \div 60) % 24) \o <<":">> \o Two(t % 60)

\* one block of format_blocks; the dash stands for the en dash of the source
FormatBlock(b) == StrfHM(b[1]) \o <<"-">> \o StrfHM(b[2])

RECURSIVE format_blocks(_)
format_blocks(blocks) ==
    IF Len(blocks) = 0 THEN <<>>
    ELSE IF Len(blocks) = 1 THEN FormatBlock(blocks[1])
    ELSE FormatBlock(blocks[1]) \o <<",", " ">> \o format_blocks(Tail(blocks))

\* ------------------------------------------------------------------ sheet
RowLicenses == {<<>>, <<"a", "-", "1">>, <<"A", "1">>}

RowIds == {<<>>, <<"x">>, <<"7">>}

\* a row of the sheet below the header: column A and column E
Rows == [license : RowLicenses, id : RowIds]

RowLists == UNION {[1..k -> Rows] : k \in 0..MaxCars}

RECURSIVE load_cars_from_sheet(_)
load_cars_from_sheet(rows) ==
    IF Len(rows) = 0 THEN <<>>
    ELSE LET row == Head(rows)
             rest == load_cars_from_sheet(Tail(rows))
         IN IF Len(row.id) = 0 \/ ~IntParses(row.id) THEN rest
            ELSE <<[resource_id |-> StrToInt(row.id),
                    license_raw |-> row.license,
                    license_clean |-> clean_license(row.license)]>> \o rest

\* lic_clean of main: car["license_clean"] or f"ID_{rid}"
DisplayKey(car) ==
    IF Len(car.license_clean) > 0 THEN car.license_clean
    ELSE <<"I", "D", "_">> \o IntToStr(car.resource_id)

\* ------------------------------------------------------------------ API
\* what the HTTP exchange of fetch_calendar_availability can bring
Responses ==
    {"post_raises", "http_error", "not_json", "scalar", "env_not_dict",
     "result_list", "result_dict_slots", "result_dict_other", "result_other"}

\* "raise": an exception leaves the function; "empty": it returns [];
\* "slots": it returns the list of the response
fetch_calendar_availability(resp) ==
    IF resp \in {"post_raises", "http_error", "not_json", "env_not_dict"}
    THEN "raise"
    ELSE IF resp \in {"result_list", "result_dict_slots"} THEN "slots"
    ELSE "empty"

\* a startDate / endDate value: absent or empty, a text no format parses, a
\* timestamp with a UTC offset, a timestamp without one
Markers(sd, ed) ==
    {[kind |-> "missing", t |-> 0], [kind |-> "bad", t |-> 0],
     [kind |-> "aware", t |-> 0]}
    \cup {[kind |-> "naive", t |-> x] : x \in Times(sd, ed)}

\* a refuelTime value: absent, a text, a number of minutes, NaN
Refuels ==
    {[kind |-> "absent", m |-> 0], [kind |-> "str", m |-> BLOCK_MINUTES],
     [kind |-> "num", m |-> BLOCK_MINUTES], [kind |-> "nan", m |-> 0]}

NonDict ==
    [isdict |-> FALSE, startDate |-> [kind |-> "missing", t |-> 0],
     endDate |-> [kind |-> "missing", t |-> 0],
     refuelTime |-> [kind |-> "absent", m |-> 0]]

Slots(sd, ed) ==
    {NonDict} \cup [isdict : {TRUE}, startDate : Markers(sd, ed),
                    endDate : Markers(sd, ed), refuelTime : Refuels]

\* parse_slot_datetime raises ValueError
ParseRaises(marker) == marker.kind \in {"missing", "bad"}

Max(a, b) == IF a >= b THEN a ELSE b

Min(a, b) == IF a <= b THEN a ELSE b

\* isinstance(slot, dict)
IsDict(slot) == slot.isdict

\* not start_str or not end_str
MarkerMissing(slot) ==
    slot.startDate.kind = "missing" \/ slot.endDate.kind = "missing"

\* the try around the two parse_slot_datetime calls takes its except branch
ParseFails(slot) == ParseRaises(slot.startDate) \/ ParseRaises(slot.endDate)

\* e after "e += timedelta(minutes=refuel)", guarded by the isinstance test
ExtendedEnd(slot) ==
    IF slot.refuelTime.kind = "num" THEN slot.endDate.t + slot.refuelTime.m
    ELSE slot.endDate.t

\* timedelta(minutes=refuel) raises: NaN is a float
ExtendRaises(slot) == slot.refuelTime.kind = "nan"

\* "e <= start_dt or s >= end_dt" compares an offset-aware datetime with the
\* naive window: TypeError.  The right operand is evaluated only when the left
\* one is false.
CompareRaises(slot, sd, ed) ==
    \/ slot.endDate.kind = "aware"
    \/ /\ ExtendedEnd(slot) > sd
       /\ slot.startDate.kind = "aware"

\* e <= start_dt or s >= end_dt
OutsideWindow(s, e, sd, ed) == e <= sd \/ s >= ed

\* s = max(s, start_dt); e = min(e, end_dt)
Clip(s, e, sd, ed) == <<Max(s, sd), Min(e, ed)>>

\* the loop body without the try around the parse: the ValueError gets out
LoopBody_NoTry(slot, blocks, sd, ed) ==
    IF ~IsDict(slot)
    THEN [branch |-> "not_dict", raised |-> FALSE, blocks |-> blocks]
    ELSE IF MarkerMissing(slot)
    THEN [branch |-> "no_marker", raised |-> FALSE, blocks |-> blocks]
    ELSE IF ParseFails(slot)
    THEN [branch |-> "unparsable", raised |-> TRUE, blocks |-> blocks]
    ELSE IF ExtendRaises(slot)
    THEN [branch |-> "refuel_error", raised |-> TRUE, blocks |-> blocks]
    ELSE IF CompareRaises(slot, sd, ed)
    THEN [branch |-> "compare_error", raised |-> TRUE, blocks |-> blocks]
    ELSE IF OutsideWindow(slot.startDate.t, ExtendedEnd(slot), sd, ed)
    THEN [branch |-> "outside", raised |-> FALSE, blocks |-> blocks]
    ELSE [branch |-> "appended", raised |-> FALSE,
          blocks |-> Append(blocks,
                            Clip(slot.startDate.t, ExtendedEnd(slot), sd, ed))]

\* one iteration of "for slot in slots"
LoopBody(slot, blocks, sd, ed) ==
    IF ~IsDict(slot)
    THEN [branch |-> "not_dict", raised |-> FALSE, blocks |-> blocks]
    ELSE IF MarkerMissing(slot)
    THEN [branch |-> "no_marker", raised |-> FALSE, blocks |-> blocks]
    ELSE IF ParseFails(slot)
    THEN [branch |-> "unparsable", raised |-> FALSE, blocks |-> blocks]
    ELSE IF ExtendRaises(slot)
    THEN [branch |-> "refuel_error", raised |-> TRUE, blocks |-> blocks]
    ELSE IF CompareRaises(slot, sd, ed)
    THEN [branch |-> "compare_error", raised |-> TRUE, blocks |-> blocks]
    ELSE IF OutsideWindow(slot.startDate.t, ExtendedEnd(slot), sd, ed)
    THEN [branch |-> "outside", raised |-> FALSE, blocks |-> blocks]
    ELSE [branch |-> "appended", raised |-> FALSE,
          blocks |-> Append(blocks,
                            Clip(slot.startDate.t, ExtendedEnd(slot), sd, ed))]

\* ------------------------------------------------------------------ merge
RECURSIVE InsertByStart(_, _)
\* position of b in a list sorted by start, behind the blocks of equal start
InsertByStart(sorted, b) ==
    IF Len(sorted) = 0 THEN <<b>>
    ELSE IF Head(sorted)[1] <= b[1]
    THEN <<Head(sorted)>> \o InsertByStart(Tail(sorted), b)
    ELSE <<b>> \o sorted

RECURSIVE SortByStart(_)
\* sorted(blocks, key=lambda x: x[0]); the sort is stable
SortByStart(blocks) ==
    IF Len(blocks) = 0 THEN <<>>
    ELSE InsertByStart(SortByStart(SubSeq(blocks, 1, Len(blocks) - 1)),
                       blocks[Len(blocks)])

\* the end of the previous input block instead of that of merged[-1]
LastEnd_Previous(blocks, i, merged) == blocks[i - 1][2]

\* last_e of "last_s, last_e = merged[-1]" when blocks[i] is folded in
LastEnd(blocks, i, merged) == merged[Len(merged)][2]

\* touching blocks left apart
Overlaps_Strict(s, last_e) == s < last_e

\* if s <= last_e
Overlaps(s, last_e) == s <= last_e

\* merged[-1] = (last_s, max(last_e, e))
Coalesce(last, b) == <<last[1], Max(last[2], b[2])>>

RECURSIVE MergeFrom(_, _, _)
\* the for loop of merge_blocks over the sorted blocks, from position i
MergeFrom(blocks, i, merged) ==
    IF i > Len(blocks) THEN merged
    ELSE IF Overlaps(blocks[i][1], LastEnd(blocks, i, merged))
    THEN MergeFrom(blocks, i + 1,
                   [merged EXCEPT ![Len(merged)] = Coalesce(@, blocks[i])])
    ELSE MergeFrom(blocks, i + 1, Append(merged, blocks[i]))

merge_blocks(blocks) ==
    IF Len(blocks) = 0 THEN <<>>
    ELSE LET sorted == SortByStart(blocks)
         IN MergeFrom(sorted, 2, <<sorted[1]>>)

\* ------------------------------------------------------------------ classifier
\* the gap compared with > instead of >=
LongEnough_Strict(gap) == gap > FREE_REQUIRED_MINUTES

\* (gap) >= timedelta(minutes=FREE_REQUIRED_MINUTES)
LongEnough(gap) == gap >= FREE_REQUIRED_MINUTES

RECURSIVE ScanFree(_, _, _)
\* the loop "for s, e in conflict_blocks" with its break
ScanFree(blocks, i, current) ==
    IF i > Len(blocks) THEN [found |-> FALSE, current |-> current]
    ELSE IF blocks[i][1] > current /\ LongEnough(blocks[i][1] - current)
    THEN [found |-> TRUE, current |-> current]
    ELSE ScanFree(blocks, i + 1, Max(current, blocks[i][2]))

\* free_period_found after the check behind the last block
FreePeriodFound(blocks, sd, ed) ==
    LET scan == ScanFree(blocks, 1, sd)
    IN scan.found \/ (scan.current < ed /\ LongEnough(ed - scan.current))

\* ------------------------------------------------------------------ margin
\* if e < end_dt: new_e -= timedelta(minutes=BLOCK_MINUTES)
NewEnd(e, ed) == IF e < ed THEN e - BLOCK_MINUTES ELSE e

\* the start moved without looking at the window's edge
NewStart_Always(s, sd) == s + BLOCK_MINUTES

\* if s > start_dt: new_s += timedelta(minutes=BLOCK_MINUTES)
NewStart(s, sd) == IF s > sd THEN s + BLOCK_MINUTES ELSE s

\* if new_e > new_s
Survives(new_s, new_e) == new_e > new_s

RECURSIVE Corrected_Outward(_, _, _)
\* the margin added around each block instead of taken off it
Corrected_Outward(blocks, sd, ed) ==
    IF Len(blocks) = 0 THEN <<>>
    ELSE LET s == Head(blocks)[1]
             e == Head(blocks)[2]
             new_s == IF s > sd THEN s - BLOCK_MINUTES ELSE s
             new_e == IF e < ed THEN e + BLOCK_MINUTES ELSE e
             rest == Corrected_Outward(Tail(blocks), sd, ed)
         IN IF Survives(new_s, new_e) THEN <<<<new_s, new_e>>>> \o rest
            ELSE rest

RECURSIVE Corrected(_, _, _)
\* the list corrected built from the merged blocks
Corrected(blocks, sd, ed) ==
    IF Len(blocks) = 0 THEN <<>>
    ELSE LET new_s == NewStart(Head(blocks)[1], sd)
             new_e == NewEnd(Head(blocks)[2], ed)
             rest == Corrected(Tail(blocks), sd, ed)
         IN IF Survives(new_s, new_e) THEN <<<<new_s, new_e>>>> \o rest
            ELSE rest

\* the margin applied in the full-day case too
FinalBlocks_AlwaysMargin(blocks, sd, ed) ==
    merge_blocks(Corrected(merge_blocks(blocks), sd, ed))

\* conflict_blocks at line 325, from the blocks the slot loop collected
FinalBlocks(blocks, sd, ed) ==
    LET merged == merge_blocks(blocks)
    IN IF FreePeriodFound(merged, sd, ed)
       THEN merge_blocks(Corrected(merged, sd, ed))
       ELSE merged

\* conflict_str
ConflictStr(final) == IF Len(final) > 0 THEN format_blocks(final) ELSE <<>>

\* the dict returned on the normal path
Result(blocks, sd, ed) ==
    [no_availability_all_day |->
         ~FreePeriodFound(merge_blocks(blocks), sd, ed),
     conflict_tijden |-> ConflictStr(FinalBlocks(blocks, sd, ed))]

\* the dict returned by the except branch around the fetch
FailOpen == [no_availability_all_day |-> FALSE, conflict_tijden |-> <<>>]

\* ------------------------------------------------------------------ state
NoMap == [k \in {} |-> FailOpen]

\* availability[key] = value
Put(map, key, value) ==
    [k \in DOMAIN map \cup {key} |-> IF k = key THEN value ELSE map[k]]

\* the locals of build_availability_for_car before its first statement
FreshCall ==
    /\ fetch_status = "none"
    /\ n = 0
    /\ branch = "none"
    /\ conflict_blocks = <<>>
    /\ clipped = <<>>
    /\ entry = FailOpen

\* main up to the call of load_cars_from_sheet
Init ==
    /\ pc = "load"
    /\ start_dt \in Nows
    /\ end_dt = start_dt + WideWindow
    /\ cars = <<>>
    /\ idx = 0
    /\ availability = NoMap
    /\ written = [done |-> FALSE, content |-> NoMap]
    /\ attempts = <<>>
    /\ quota = RunQuota
    /\ FreshCall

\* a caller other than main: one call of build_availability_for_car with a
\* window of its own
InitBuild ==
    /\ pc = "call"
    /\ start_dt = CallStart
    /\ \E len \in ShortWindows \cup {WideWindow} :
          /\ end_dt = start_dt + len
          /\ quota = IF len = WideWindow THEN WideSlots ELSE MaxSlots
    /\ cars = <<[resource_id |-> 7, license_raw |-> <<>>,
                 license_clean |-> <<>>]>>
    /\ idx = 1
    /\ availability = NoMap
    /\ written = [done |-> FALSE, content |-> NoMap]
    /\ attempts = <<0>>
    /\ FreshCall

\* cars = load_cars_from_sheet(); if not cars: return
LoadCars ==
    /\ pc = "load"
    /\ \E rows \in RowLists :
          /\ cars' = load_cars_from_sheet(rows)
          /\ attempts' = [i \in 1..Len(cars') |-> 0]
          /\ IF Len(cars') = 0
             THEN pc' = "no_cars" /\ idx' = idx
             ELSE pc' = "call" /\ idx' = 1
    /\ UNCHANGED <<start_dt, end_dt, availability, written, fetch_status,
                   quota, n, branch, conflict_blocks, clipped, entry>>

\* the call of fetch_calendar_availability without the try around it
Fetch_NoTry ==
    /\ pc = "call"
    /\ attempts' = [attempts EXCEPT ![idx] = @ + 1]
    /\ \E resp \in Responses :
          LET got == fetch_calendar_availability(resp)
          IN IF got = "raise"
             THEN /\ fetch_status' = "raised"
                  /\ entry' = entry
                  /\ pc' = "crashed"
             ELSE /\ fetch_status' = got
                  /\ entry' = entry
                  /\ pc' = "slots"
    /\ UNCHANGED <<start_dt, end_dt, cars, idx, availability, written, quota,
                   n, branch, conflict_blocks, clipped>>

\* build_availability_for_car, the try around fetch_calendar_availability
Fetch ==
    /\ pc = "call"
    /\ attempts' = [attempts EXCEPT ![idx] = @ + 1]
    /\ \E resp \in Responses :
          LET got == fetch_calendar_availability(resp)
          IN IF got = "raise"
             THEN /\ fetch_status' = "raised"
                  /\ entry' = FailOpen
                  /\ pc' = "returned"
             ELSE /\ fetch_status' = got
                  /\ entry' = entry
                  /\ pc' = "slots"
    /\ UNCHANGED <<start_dt, end_dt, cars, idx, availability, written, quota,
                   n, branch, conflict_blocks, clipped>>

\* one iteration of "for slot in slots"; an exception it raises is caught
\* nowhere, so it ends the run
Slot ==
    /\ pc = "slots"
    /\ fetch_status = "slots"
    /\ quota > 0
    /\ quota' = quota - 1
    /\ n' = n + 1
    /\ \E slot \in Slots(start_dt, end_dt) :
          LET r == LoopBody(slot, conflict_blocks, start_dt, end_dt)
          IN /\ branch' = r.branch
             /\ conflict_blocks' = r.blocks
             /\ pc' = IF r.raised THEN "crashed" ELSE "slots"
    /\ UNCHANGED <<start_dt, end_dt, cars, idx, availability, written,
                   attempts, fetch_status, clipped, entry>>

\* the slot list is exhausted: merge, classify, correct, format, return
Finish ==
    /\ pc = "slots"
    /\ clipped' = conflict_blocks
    /\ conflict_blocks' = FinalBlocks(conflict_blocks, start_dt, end_dt)
    /\ entry' = Result(conflict_blocks, start_dt, end_dt)
    /\ pc' = "returned"
    /\ UNCHANGED <<start_dt, end_dt, cars, idx, availability, written,
                   attempts, fetch_status, quota, n, branch>>

\* availability[lic_clean] = entry, and the next round of the for loop
Store ==
    /\ pc = "returned"
    /\ availability' = Put(availability, DisplayKey(cars[idx]), entry)
    /\ IF idx < Len(cars)
       THEN pc' = "call" /\ idx' = idx + 1
       ELSE pc' = "write" /\ idx' = idx
    /\ fetch_status' = "none"
    /\ n' = 0
    /\ branch' = "none"
    /\ conflict_blocks' = <<>>
    /\ clipped' = <<>>
    /\ entry' = FailOpen
    /\ UNCHANGED <<start_dt, end_dt, cars, written, attempts, quota>>

\* json.dump(availability, f)
WriteFile ==
    /\ pc = "write"
    /\ written' = [done |-> TRUE, content |-> availability]
    /\ pc' = "done"
    /\ UNCHANGED <<start_dt, end_dt, cars, idx, availability, attempts,
                   fetch_status, quota, n, branch, conflict_blocks, clipped,
                   entry>>

Next == LoadCars \/ Fetch \/ Slot \/ Finish \/ Store \/ WriteFile

Spec == Init /\ [][Next]_vars

NextBuild == Fetch \/ Slot \/ Finish

SpecBuild == InitBuild /\ [][NextBuild]_vars

\* ================================================================== claims
\* build_availability_for_car returned through its last return statement
ReturnedNormally == pc = "returned" /\ fetch_status # "raised"

\* the merged busy blocks of the call that returned (line 286)
Merged == merge_blocks(clipped)

C2_FailOpen ==
    /\ fetch_status = "raised"
           => /\ pc = "returned"
              /\ entry = [no_availability_all_day |-> FALSE,
                          conflict_tijden |-> <<>>]
    /\ \A i \in 1..Len(attempts) : attempts[i] <= 1

\* the fetch of the second car failed after the first car was stored
C2_Witness ==
    /\ pc = "returned"
    /\ fetch_status = "raised"
    /\ idx = 2
    /\ attempts = <<1, 1>>

\* ------------------------------------------------------------------ C3
\* a record the slot loop is meant to drop
Malformed(slot) ==
    \/ ~slot.isdict
    \/ slot.startDate.kind \in {"missing", "bad"}
    \/ slot.endDate.kind \in {"missing", "bad"}

\* a record whose extension is absent or no number
NoExtension(slot) == slot.refuelTime.kind \in {"absent", "str"}

\* C3 as stated: a record that is no dict, lacks a marker, has an unparsable
\* timestamp or a missing or non-numeric extension raises nothing and
\* contributes no interval.
C3_MalformedContributeNothing ==
    pc = "slots" /\ fetch_status = "slots"
        => \A slot \in Slots(start_dt, end_dt) :
               Malformed(slot) \/ NoExtension(slot)
                   => LET r == LoopBody(slot, conflict_blocks, start_dt, end_dt)
                      IN ~r.raised /\ r.blocks = conflict_blocks

\* C3 amended: a record that is no dict, lacks a marker or has an unparsable
\* timestamp raises nothing and contributes no interval, so the outcome of the
\* call is that of the other records alone; a record whose extension is
\* missing or non-numeric is kept, with its end not extended.
C3_MalformedDropped ==
    pc = "slots" /\ fetch_status = "slots"
        => \A slot \in Slots(start_dt, end_dt) :
               LET r == LoopBody(slot, conflict_blocks, start_dt, end_dt)
               IN /\ Malformed(slot)
                      => ~r.raised /\ r.blocks = conflict_blocks
                  /\ (/\ NoExtension(slot)
                      /\ slot.isdict
                      /\ slot.startDate.kind = "naive"
                      /\ slot.endDate.kind = "naive"
                      /\ slot.endDate.t > start_dt
                      /\ slot.startDate.t < end_dt)
                         => /\ ~r.raised
                            /\ r.blocks =
                                 Append(conflict_blocks,
                                        <<Max(slot.startDate.t, start_dt),
                                          Min(slot.endDate.t, end_dt)>>)

\* a call that dropped a malformed record, kept another and returned
C3_Witness ==
    /\ ReturnedNormally
    /\ branch \in {"not_dict", "no_marker", "unparsable"}
    /\ n = 2
    /\ Len(clipped) = 1
    /\ entry = Result(clipped, start_dt, end_dt)

\* ------------------------------------------------------------------ C4
\* C4: every interval the clipping step stores in conflict_blocks satisfies
\* window.start <= start < end <= window.end.
C4_ClippingContainment ==
    pc = "slots"
        => \A i \in 1..Len(conflict_blocks) :
               /\ start_dt <= conflict_blocks[i][1]
               /\ conflict_blocks[i][1] < conflict_blocks[i][2]
               /\ conflict_blocks[i][2] <= end_dt

\* ------------------------------------------------------------------ C9
\* C9: no error is fatal to the run: main reaches the serialization step and
\* the written mapping has an entry under the display key of every resource.
C9_RunNeverAborts ==
    /\ pc # "crashed"
    /\ pc = "done"
           => /\ written.done
              /\ \A i \in 1..Len(cars) :
                     DisplayKey(cars[i]) \in DOMAIN written.content

\* ------------------------------------------------------------------ C5
\* every busy block the call collected has start < end
BusyWellFormed == \A i \in 1..Len(clipped) : clipped[i][1] < clipped[i][2]

\* some span of FREE_REQUIRED_MINUTES inside the window meets no busy block
FreeSpanExists(blocks, sd, ed) ==
    \E t \in sd..(ed - FREE_REQUIRED_MINUTES) :
        \A i \in 1..Len(blocks) :
            blocks[i][2] <= t \/ blocks[i][1] >= t + FREE_REQUIRED_MINUTES

\* C5: for busy intervals with start < end, no_availability_all_day is true
\* exactly when the window holds no free span of at least
\* FREE_REQUIRED_MINUTES; a span of exactly that length counts as free.
C5_FullDayExact ==
    ReturnedNormally /\ BusyWellFormed
        => (entry.no_availability_all_day
                <=> ~FreeSpanExists(clipped, start_dt, end_dt))

\* the only free span is exactly FREE_REQUIRED_MINUTES long, and the call
\* returned "not full-day"
C5_Witness ==
    /\ ReturnedNormally
    /\ end_dt - start_dt = FREE_REQUIRED_MINUTES + BLOCK_MINUTES
    /\ clipped = <<<<start_dt + FREE_REQUIRED_MINUTES, end_dt>>>>
    /\ ~entry.no_availability_all_day

\* ------------------------------------------------------------------ C6
\* ascending by start, and each block ends before the next one starts
OrderedDisjoint(blocks) ==
    \A i \in 1..(Len(blocks) - 1) :
        /\ blocks[i][1] <= blocks[i + 1][1]
        /\ ~(blocks[i][2] >= blocks[i + 1][1])

\* C6: the output of merge_blocks is ordered by ascending start and has no two
\* consecutive intervals a, b with a.end >= b.start; touching intervals are
\* coalesced; empty input gives empty output.
C6_MergeDisjoint ==
    pc = "returned"
        => /\ OrderedDisjoint(Merged)
           /\ OrderedDisjoint(conflict_blocks)
           /\ (clipped = <<>> => Merged = <<>>)
           /\ merge_blocks(<<<<600, 620>>, <<620, 660>>>>) = <<<<600, 660>>>>

\* two touching blocks were merged into one
C6_Witness ==
    /\ ReturnedNormally
    /\ BusyWellFormed
    /\ Len(clipped) = 2
    /\ clipped[1][2] = clipped[2][1]
    /\ Merged = <<<<clipped[1][1], clipped[2][2]>>>>
    /\ conflict_blocks = Merged

\* ------------------------------------------------------------------ C7
\* C7: merging an already merged list returns it unchanged.
C7_MergeIdempotent ==
    pc = "returned"
        => /\ merge_blocks(Merged) = Merged
           /\ merge_blocks(conflict_blocks) = conflict_blocks

\* three blocks were merged into two
C7_Witness ==
    /\ ReturnedNormally
    /\ Len(clipped) = 3
    /\ Len(Merged) = 2

\* ------------------------------------------------------------------ C8
\* the margin rule as the claim words it
Shrunk(b, sd, ed) ==
    <<IF b[1] = sd THEN b[1] ELSE b[1] + BLOCK_MINUTES,
      IF b[2] = ed THEN b[2] ELSE b[2] - BLOCK_MINUTES>>

NotCollapsed(b) == ~(b[2] <= b[1])

RuleOutput(blocks, sd, ed) ==
    SelectSeq([i \in 1..Len(blocks) |-> Shrunk(blocks[i], sd, ed)],
              NotCollapsed)

\* C8: when the resource is classified available, each merged busy interval
\* is shrunk by the margin on every side that does not lie on the window's
\* edge and dropped when it collapses; every output interval lies inside an
\* input interval.
C8_MarginRule ==
    ReturnedNormally /\ ~entry.no_availability_all_day
        => /\ conflict_blocks = RuleOutput(Merged, start_dt, end_dt)
           /\ \A i \in 1..Len(conflict_blocks) :
                  \E j \in 1..Len(Merged) :
                      /\ conflict_blocks[i][1] >= Merged[j][1]
                      /\ conflict_blocks[i][2] <= Merged[j][2]
           /\ FinalBlocks(<<<<600, 660>>>>, 540, 1140) = <<<<615, 645>>>>
           /\ FinalBlocks(<<<<540, 580>>>>, 540, 1140) = <<<<540, 565>>>>

\* one block kept its start on the window's edge and lost the margin at its
\* end, another was shrunk on both sides and collapsed
C8_Witness ==
    /\ ReturnedNormally
    /\ ~entry.no_availability_all_day
    /\ Merged = <<<<start_dt, start_dt + FREE_REQUIRED_MINUTES>>,
                  <<end_dt - FREE_REQUIRED_MINUTES, end_dt - BLOCK_MINUTES>>>>
    /\ conflict_blocks = <<<<start_dt, start_dt + BLOCK_MINUTES>>>>

\* ------------------------------------------------------------------ C10
\* the intervals a conflict_tijden text lists
IntervalCount(text) ==
    IF Len(text) = 0 THEN 0
    ELSE 1 + Cardinality({i \in 1..Len(text) : text[i] = ","})

\* a positive gap between every two consecutive blocks, ascending
PositiveGaps(blocks) ==
    \A i \in 1..(Len(blocks) - 1) :
        /\ blocks[i][1] < blocks[i + 1][1]
        /\ blocks[i][2] < blocks[i + 1][1]

\* C10: the list corrected is already sorted with a positive gap between
\* consecutive blocks, the second merge_blocks call returns it unchanged, and
\* the summary lists as many intervals as merged blocks did not collapse.
C10_RemergeChangesNothing ==
    ReturnedNormally /\ ~entry.no_availability_all_day
        => LET corrected == Corrected(Merged, start_dt, end_dt)
           IN /\ PositiveGaps(corrected)
              /\ merge_blocks(corrected) = corrected
              /\ conflict_blocks = corrected
              /\ IntervalCount(entry.conflict_tijden) =
                     Cardinality({j \in 1..Len(Merged) :
                         NotCollapsed(Shrunk(Merged[j], start_dt, end_dt))})

\* two merged blocks survived the margin and the summary lists both
C10_Witness ==
    /\ ReturnedNormally
    /\ ~entry.no_availability_all_day
    /\ Len(Merged) = 2
    /\ Len(conflict_blocks) = 2
    /\ IntervalCount(entry.conflict_tijden) = 2

====
